---- MODULE Spec2Model ----
(***************************************************************************)
(* DICOM folder consolidation of core/utils/dicom.py: dcm_info,            *)
(* dcm_check and the DicomInfo class (get_tag, check_uniqueness).          *)
(*                                                                         *)
(* A folder is a sequence of headers, one per file, in the order the file  *)
(* list holds them; a file is its position in that sequence.  A header is  *)
(* a function from the tag names the file carries to their values, so      *)
(* "the header raises AttributeError for tag t" is  t \notin DOMAIN h.     *)
(*                                                                         *)
(* dcm_info sorts the paths it globs and DicomInfo does not; since every   *)
(* assignment of headers to positions is a folder of the model, the list   *)
(* order of a folder stands for either.  list(set(...)) has no defined     *)
(* order: the state keeps the values and dcm_check is given every order.   *)
(***************************************************************************)
EXTENDS Integers, Sequences, FiniteSets

\* ------------------------------------------------------------------ bounds
MaxFiles == 4
MaxSelFiles == 3
MaxMalFiles == 3
MaxTagFiles == 3
MaxSeries == 2
MaxInstance == 2
MaxTags == 2

\* ------------------------------------------------------- values and folders
Marker == "PROJECTION IMAGE"

ImageTypeValues ==
    { <<"ORIGINAL", "PRIMARY">>, <<"DERIVED", "SECONDARY">>,
      <<"DERIVED", "PROJECTION IMAGE">>, <<"ORIGINAL", "PROJECTION IMAGE">> }

OneType == <<"ORIGINAL", "PRIMARY">>

AcqTime == "101500"

\* the four header attributes dcm_info reads, in the order it reads them
ReadOrder == <<"ImageType", "SeriesNumber", "AcquisitionTime", "InstanceNumber">>

TagNames == {ReadOrder[k] : k \in 1..Len(ReadOrder)}

Range(s) == {s[i] : i \in DOMAIN s}

\* the header of a file that carries all four attributes
Header(it, sn, inum) ==
    [t \in TagNames |->
        CASE t = "ImageType" -> it
          [] t = "SeriesNumber" -> sn
          [] t = "AcquisitionTime" -> AcqTime
          [] OTHER -> inum]

WellFormedHeaders(types) ==
    { Header(it, sn, inum) : it \in types, sn \in 1..MaxSeries, inum \in 1..MaxInstance }

\* headers that may lack any of the attributes
AllHeaders ==
    { [t \in S |-> h[t]] : h \in WellFormedHeaders({OneType}), S \in SUBSET TagNames }

\* the header h without the attributes in lost
Without(h, lost) == [t \in DOMAIN h \ lost |-> h[t]]

\* one acquisition type, every series/instance numbering
DupFolder(h) ==
    \E n \in 0..MaxFiles : h \in [1..n -> WellFormedHeaders({OneType})]

\* every mix of image types and series; instance numbers either run 1..n
\* or come in the doubled pattern 1,1,2,2,...
SelFolder(h) ==
    \E n \in 0..MaxSelFiles :
      \E c \in [1..n -> ImageTypeValues \X (1..MaxSeries)], doubled \in BOOLEAN :
        h = [i \in 1..n |->
                Header(c[i][1], c[i][2], IF doubled THEN (i + 1) \div 2 ELSE i)]

\* one acquisition type with every series numbering, instance numbers
\* 1..n or doubled, and one file that lacks some of its attributes
MalFolder(h) ==
    \E n \in 1..MaxMalFiles :
      \E sn \in [1..n -> 1..MaxSeries], doubled \in BOOLEAN,
         m \in 1..n, lost \in SUBSET TagNames \ {{}} :
        h = [i \in 1..n |->
                Without(Header(OneType, sn[i], IF doubled THEN (i + 1) \div 2 ELSE i),
                        IF i = m THEN lost ELSE {})]

\* files that may each lack any of their attributes
TagFolder(h) == \E n \in 0..MaxTagFiles : h \in [1..n -> AllHeaders]

\* ------------------------------------------------------------------- state
VARIABLES
    hdr,          \* the headers on disk, by file
    files,        \* the file list as discovered / as passed in
    pc,           \* "start", "info", "info2", "checked", "object", "tags", "raised"
    call,         \* the function called last
    exc,          \* the exception that left it, or "none"
    dicoms,       \* dcm_info's dicoms / DicomInfo's self.dcms (mutated in place)
    toRemove,     \* the removal list the call built
    im_types,     \* values in dcm_info's list(set(ImageTypes))
    series_nums,  \* values in dcm_info's list(set(SeriesNums))
    dcms,         \* dcm_check's result
    req,          \* get_tag's tag argument, as a list
    tags          \* get_tag's tags dictionary

vars == <<hdr, files, pc, call, exc, dicoms, toRemove, im_types, series_nums,
          dcms, req, tags>>

\* ----------------------------------------------------------- list helpers
Min(a, b) == IF a < b THEN a ELSE b

\* zip(a, b): pairs up to the shorter of the two
Zip(a, b) == [i \in 1..Min(Len(a), Len(b)) |-> <<a[i], b[i]>>]

\* str(n) of a non-negative integer: its decimal digits
RECURSIVE Digits(_)
Digits(n) == IF n < 10 THEN <<n>> ELSE Append(Digits(n \div 10), n % 10)

\* Python's < on two such strings: lexicographic
StrLess(a, b) ==
    \E k \in 1..(Min(Len(a), Len(b)) + 1) :
       /\ \A j \in 1..(k - 1) : a[j] = b[j]
       /\ \/ (k > Len(a) /\ k <= Len(b))
          \/ (k <= Len(a) /\ k <= Len(b) /\ a[k] < b[k])

\* Python's < on two sort keys: on integers (dcm_info's InstanceNumber
\* values) or on strings (get_tag's normalised values)
KeyLess(a, b, isStr) == IF isStr THEN StrLess(a, b) ELSE a < b

\* sorted(pairs, key=itemgetter(1)): stable, ties keep their original order
SortedByKey(s, isStr) ==
    LET Rank(i) == 1 + Cardinality({ j \in 1..Len(s) :
                        \/ KeyLess(s[j][2], s[i][2], isStr)
                        \/ (~KeyLess(s[i][2], s[j][2], isStr) /\ j < i) })
    IN  [p \in 1..Len(s) |-> s[CHOOSE i \in 1..Len(s) : Rank(i) = p]]

\* Stride with step 1 in place of step 2 (a faulty variant, for C1)
StrideStepOne(s) == [k \in 1..(IF Len(s) = 0 THEN 0 ELSE Len(s) - 1) |-> s[k]]

\* s[0:-1:2]: 0-based indices 0, 2, 4, ... below len(s) - 1
Stride(s) == [k \in 1..(Len(s) \div 2) |-> s[2 * k - 1]]

\* list.remove(f): drops the first occurrence (f is known to be in the list)
RemoveFirst(list, f) ==
    LET p == CHOOSE i \in 1..Len(list) :
                 list[i] = f /\ \A j \in 1..(i - 1) : list[j] # f
    IN  [i \in 1..(Len(list) - 1) |-> IF i < p THEN list[i] ELSE list[i + 1]]

\* for f in toRemove: dicoms.remove(f) -- ValueError when f is no longer there,
\* with the removals done so far kept (the list is mutated in place)
RECURSIVE RemoveAll(_, _)
RemoveAll(list, rem) ==
    IF rem = << >> THEN [ok |-> TRUE, list |-> list]
    ELSE IF Head(rem) \notin Range(list) THEN [ok |-> FALSE, list |-> list]
    ELSE RemoveAll(RemoveFirst(list, Head(rem)), Tail(rem))

\* ---------------------------------------------------------------- dcm_info
\* the try block appended attribute k of file f: attributes 1..k are all there
Appended(f, k) == \A j \in 1..k : ReadOrder[j] \in DOMAIN hdr[f]

\* the list the loop builds for attribute k
Collected(list, k) ==
    LET got == SelectSeq(list, LAMBDA f : Appended(f, k))
    IN  [i \in 1..Len(got) |-> hdr[got[i]][ReadOrder[k]]]

\* the files the except branch appended to toRemove
Malformed(list) == SelectSeq(list, LAMBDA f : ~Appended(f, Len(ReadOrder)))

\* DuplicateRule with >= in place of == (a faulty variant, for C3)
DuplicateRuleAtLeast(InstanceNums, SeriesNums) ==
    /\ Len(InstanceNums) >= 2 * Cardinality(Range(InstanceNums))
    /\ Cardinality(Range(SeriesNums)) = 1

\* len(InstanceNums) == 2*len(set(InstanceNums)) and len(set(SeriesNums)) == 1
DuplicateRule(InstanceNums, SeriesNums) ==
    /\ Len(InstanceNums) = 2 * Cardinality(Range(InstanceNums))
    /\ Cardinality(Range(SeriesNums)) = 1

\* [x[0] for x in sorted(zip(dicoms, InstanceNums), key=itemgetter(1))[0:-1:2]]
UniqueInstanceNums(list, InstanceNums, isStr) ==
    LET picked == Stride(SortedByKey(Zip(list, InstanceNums), isStr))
    IN  [i \in 1..Len(picked) |-> picked[i][1]]

\* dcm_info on a file list that was found non-empty or passed in
DcmInfoResult(list) ==
    LET ImageTypes   == Collected(list, 1)
        SeriesNums   == Collected(list, 2)
        InstanceNums == Collected(list, 4)
        rem == IF DuplicateRule(InstanceNums, SeriesNums)
               THEN Malformed(list) \o UniqueInstanceNums(list, InstanceNums, FALSE)
               ELSE Malformed(list)
        out == RemoveAll(list, rem)
    IN  [ok |-> out.ok, dicoms |-> out.list, toRemove |-> rem,
         im_types |-> Range(ImageTypes), series_nums |-> Range(SeriesNums)]

\* ---------------------------------------------------------------- dcm_check
\* NotProjection with the 'not' dropped (a faulty variant, for C5)
IsProjection(x) == Marker \in Range(x)

\* not 'PROJECTION IMAGE' in x
NotProjection(x) == Marker \notin Range(x)

\* NpMax taking the minimum (a faulty variant, for C4)
NpMin(list) == CHOOSE m \in Range(list) : \A x \in Range(list) : m <= x

\* np.max(series_nums)
NpMax(list) == CHOOSE m \in Range(list) : \A x \in Range(list) : x <= m

\* list(set(...)): the values in some iteration order
Orderings(S) == { s \in [1..Cardinality(S) -> S] : Range(s) = S }

\* dcm_check(dicoms, im_types, series_nums)
DcmCheckResult(list, types, series) ==
    IF Len(types) > 1
    THEN LET cand == SelectSeq(types, NotProjection)
         IN  IF cand = << >> THEN [exc |-> "IndexError", dcms |-> << >>]
             ELSE IF \E i \in 1..Len(list) : "ImageType" \notin DOMAIN hdr[list[i]]
             THEN [exc |-> "AttributeError", dcms |-> << >>]
             ELSE [exc |-> "none",
                   dcms |-> SelectSeq(list, LAMBDA f : hdr[f]["ImageType"] = cand[1])]
    ELSE IF Len(series) > 1
    THEN IF \E i \in 1..Len(list) : "SeriesNumber" \notin DOMAIN hdr[list[i]]
         THEN [exc |-> "AttributeError", dcms |-> << >>]
         ELSE [exc |-> "none",
               dcms |-> SelectSeq(list, LAMBDA f : hdr[f]["SeriesNumber"] = NpMax(series))]
    ELSE [exc |-> "none", dcms |-> list]

\* ---------------------------------------------------------------- DicomInfo
\* get_tag's normalisation: a multi-valued element becomes a tuple, anything
\* else its str() (a string stays itself); on an interpreter that still has
\* collections.Iterable
Normalised(t, val) ==
    CASE t = "ImageType" -> val
      [] t = "AcquisitionTime" -> val
      [] OTHER -> Digits(val)

\* the values list get_tag builds for tag t
TagValues(list, t) ==
    LET got == SelectSeq(list, LAMBDA f : t \in DOMAIN hdr[f])
    IN  [i \in 1..Len(got) |-> Normalised(t, hdr[got[i]][t])]

\* what the except branch appends to toRemove while the tags are read in turn
RECURSIVE TagsToRemove(_, _)
TagsToRemove(list, request) ==
    IF request = << >> THEN << >>
    ELSE SelectSeq(list, LAMBDA f : Head(request) \notin DOMAIN hdr[f])
         \o TagsToRemove(list, Tail(request))

\* DicomInfo.check_uniqueness(InstanceNums, SeriesNums) on self.dcms
CheckUniqueness(list, InstanceNums, SeriesNums) ==
    IF DuplicateRule(InstanceNums, SeriesNums)
    THEN UniqueInstanceNums(list, InstanceNums, TRUE)
    ELSE << >>

\* GetTagRemoval with the sum kept, as toRemove += ... would (a faulty
\* variant, for C12); the call raises and is swallowed unless both tags
\* were requested
GetTagRemovalKept(list, request) ==
    IF {"InstanceNumber", "SeriesNumber"} \subseteq Range(request)
    THEN TagsToRemove(list, request)
         \o CheckUniqueness(list, TagValues(list, "InstanceNumber"),
                            TagValues(list, "SeriesNumber"))
    ELSE TagsToRemove(list, request)

\* the list get_tag goes on to remove: the sum with check_uniqueness's result
\* is computed and dropped, and whatever that call raises is swallowed
GetTagRemoval(list, request) == TagsToRemove(list, request)

\* DicomInfo.get_tag(tag) on self.dcms = list
GetTagResult(list, request) ==
    LET rem == GetTagRemoval(list, request)
        out == RemoveAll(list, rem)
    IN  [ok |-> out.ok, dcms |-> out.list, toRemove |-> rem,
         tags |-> [t \in Range(request) |-> Range(TagValues(list, t))]]

\* the tag arguments tried: one tag, or a list of different tags
Requests ==
    { r \in UNION { [1..n -> TagNames] : n \in 1..MaxTags } :
        \A i, j \in DOMAIN r : i # j => r[i] # r[j] }

\* ------------------------------------------------------------------ actions
Start ==
    /\ files = [i \in 1..Len(hdr) |-> i]
    /\ pc = "start"
    /\ call = "none"
    /\ exc = "none"
    /\ dicoms = files
    /\ toRemove = << >>
    /\ im_types = {}
    /\ series_nums = {}
    /\ dcms = << >>
    /\ req = << >>
    /\ tags = << >>

Init == (DupFolder(hdr) \/ SelFolder(hdr) \/ MalFolder(hdr)) /\ Start

\* dcm_info(dcm_folder): a path whose glob gave `files`, or the list itself
DcmInfo ==
    /\ pc = "start"
    /\ call' = "dcm_info"
    /\ \E isList \in BOOLEAN :
         IF ~isList /\ files = << >>
         THEN /\ pc' = "raised"
              /\ exc' = "Exception"
              /\ UNCHANGED <<dicoms, toRemove, im_types, series_nums>>
         ELSE LET r == DcmInfoResult(files)
              IN  /\ dicoms' = r.dicoms
                  /\ toRemove' = r.toRemove
                  /\ IF r.ok
                     THEN /\ pc' = "info"
                          /\ exc' = "none"
                          /\ im_types' = r.im_types
                          /\ series_nums' = r.series_nums
                     ELSE /\ pc' = "raised"
                          /\ exc' = "ValueError"
                          /\ UNCHANGED <<im_types, series_nums>>
    /\ UNCHANGED <<hdr, files, dcms, req, tags>>

\* dcm_check on what dcm_info returned
DcmCheck ==
    /\ pc = "info"
    /\ call' = "dcm_check"
    /\ \E it \in Orderings(im_types), sn \in Orderings(series_nums) :
         LET r == DcmCheckResult(dicoms, it, sn)
         IN  /\ exc' = r.exc
             /\ dcms' = r.dcms
             /\ pc' = IF r.exc = "none" THEN "checked" ELSE "raised"
    /\ UNCHANGED <<hdr, files, dicoms, toRemove, im_types, series_nums, req, tags>>

\* DicomInfo(dicoms): keeps the list it is given, or globs the folder
DicomInfoInit ==
    /\ pc = "start"
    /\ call' = "DicomInfo"
    /\ \E isList \in BOOLEAN :
         IF ~isList /\ files = << >>
         THEN pc' = "raised" /\ exc' = "Exception"
         ELSE pc' = "object" /\ exc' = "none"
    /\ UNCHANGED <<hdr, files, dicoms, toRemove, im_types, series_nums, dcms, req, tags>>

\* DicomInfo.get_tag(tag)
GetTag ==
    /\ pc = "object"
    /\ call' = "get_tag"
    /\ \E request \in Requests :
         LET r == GetTagResult(dicoms, request)
         IN  /\ req' = request
             /\ dicoms' = r.dcms
             /\ toRemove' = r.toRemove
             /\ IF r.ok
                THEN pc' = "tags" /\ exc' = "none" /\ tags' = r.tags
                ELSE pc' = "raised" /\ exc' = "ValueError" /\ UNCHANGED tags
    /\ UNCHANGED <<hdr, files, im_types, series_nums, dcms>>

\* dcm_info called again, on the list the first call returned
DcmInfoAgain ==
    /\ pc = "info"
    /\ call' = "dcm_info_again"
    /\ LET r == DcmInfoResult(dicoms)
       IN  /\ dicoms' = r.dicoms
           /\ toRemove' = r.toRemove
           /\ IF r.ok
              THEN /\ pc' = "info2"
                   /\ exc' = "none"
                   /\ im_types' = r.im_types
                   /\ series_nums' = r.series_nums
              ELSE /\ pc' = "raised"
                   /\ exc' = "ValueError"
                   /\ UNCHANGED <<im_types, series_nums>>
    /\ UNCHANGED <<hdr, files, dcms, req, tags>>

Next == DcmInfo \/ DcmCheck \/ DcmInfoAgain

Spec == Init /\ [][Next]_vars

\* the same operations and the DicomInfo class on folders of possibly
\* malformed files
InitTag == TagFolder(hdr) /\ Start

NextTag == DcmInfo \/ DcmCheck \/ DicomInfoInit \/ GetTag

SpecTag == InitTag /\ [][NextTag]_vars

\* the DicomInfo class alone, on folders in which one file lacks attributes
InitObj == MalFolder(hdr) /\ Start

NextObj == DicomInfoInit \/ GetTag

SpecObj == InitObj /\ [][NextObj]_vars

\* ------------------------------------------------- the folder, as it is
\* (read off the headers, not off what the functions computed)
Readable(f) == DOMAIN hdr[f] = TagNames

AllReadable == \A f \in Range(files) : Readable(f)

FolderInstances == { hdr[f]["InstanceNumber"] : f \in {g \in Range(files) : Readable(g)} }

FolderSeries ==
    { hdr[f]["SeriesNumber"] : f \in {g \in Range(files) : "SeriesNumber" \in DOMAIN hdr[g]} }

FolderTypes ==
    { hdr[f]["ImageType"] : f \in {g \in Range(files) : "ImageType" \in DOMAIN hdr[g]} }

\* the duplicate rule of the folder: as many instance-number values as twice
\* the distinct ones, and one series number
FolderDuplicateRule ==
    /\ Cardinality({f \in Range(files) : Readable(f)}) = 2 * Cardinality(FolderInstances)
    /\ Cardinality(FolderSeries) = 1

Contains(t, s) == \E i \in DOMAIN t : t[i] = s

\* --------------------------------------------------------------- the claims

\* C1: when the folder satisfies the duplicate rule, dcm_info returns (it
\* does not raise when every file is readable) and exactly as many files
\* remain in the list it returns as there are distinct instance numbers.
C1_CountAfterDuplicateRemoval ==
    (call = "dcm_info" /\ FolderDuplicateRule) =>
        /\ AllReadable => pc = "info"
        /\ pc = "info" => Len(dicoms) = Cardinality(FolderInstances)

\* a doubled acquisition of two slices was reduced to two files
C1_Witness ==
    /\ call = "dcm_info" /\ pc = "info" /\ FolderDuplicateRule
    /\ Len(files) = 4 /\ Cardinality(FolderInstances) = 2 /\ Len(dicoms) = 2

\* C2: when the folder satisfies the duplicate rule, every distinct instance
\* number is carried by exactly one file of the list dcm_info returns.
C2_OneFilePerInstanceNumber ==
    (call = "dcm_info" /\ pc = "info" /\ AllReadable /\ FolderDuplicateRule) =>
        \A v \in FolderInstances :
            Cardinality({i \in DOMAIN dicoms : hdr[dicoms[i]]["InstanceNumber"] = v}) = 1

\* C3 as stated: a folder whose files all show one image type and one series
\* number comes out of dcm_info and dcm_check with its file list unchanged.
C3_SingleSeriesKeepsAll ==
    ( /\ pc \in {"checked", "raised"}
      /\ \A f \in Range(files) : {"ImageType", "SeriesNumber"} \subseteq DOMAIN hdr[f]
      /\ Cardinality(FolderTypes) = 1
      /\ Cardinality(FolderSeries) = 1 ) =>
        (pc = "checked" /\ dcms = files)

\* C3 as amended: a folder of readable files with one image type and one
\* series number that does not satisfy the duplicate rule comes out of
\* dcm_info and dcm_check with its file list unchanged.
C3_SingleSeriesNoDuplicatesKeepsAll ==
    ( /\ pc \in {"checked", "raised"}
      /\ AllReadable
      /\ Cardinality(FolderTypes) = 1
      /\ Cardinality(FolderSeries) = 1
      /\ ~FolderDuplicateRule ) =>
        (pc = "checked" /\ dcms = files)

\* three readable files of one type and series, not a doubled acquisition,
\* went through both functions
C3_Witness ==
    /\ pc = "checked" /\ AllReadable /\ ~FolderDuplicateRule
    /\ Cardinality(FolderTypes) = 1 /\ Cardinality(FolderSeries) = 1
    /\ Len(files) = 3 /\ dcms = files

\* C4: with one image type and two or more series numbers observed, dcm_check
\* returns only files of the largest observed series number, and all of them.
C4_MaxSeriesSelected ==
    (call = "dcm_check" /\ Cardinality(im_types) = 1 /\ Cardinality(series_nums) >= 2) =>
        /\ pc = "checked"
        /\ LET top == CHOOSE m \in series_nums : \A x \in series_nums : x <= m
           IN  /\ \A i \in DOMAIN dcms : hdr[dcms[i]]["SeriesNumber"] = top
               /\ \A f \in Range(dicoms) :
                     hdr[f]["SeriesNumber"] = top => f \in Range(dcms)

\* files of the smaller series number were dropped, those of the larger kept
C4_Witness ==
    /\ call = "dcm_check" /\ pc = "checked"
    /\ Cardinality(im_types) = 1 /\ Cardinality(series_nums) >= 2
    /\ Len(dcms) >= 1 /\ Len(dcms) < Len(dicoms)

\* C5: with two or more image types observed of which exactly one carries
\* PROJECTION IMAGE, dcm_check returns no file of a projection type, and all
\* returned files have one and the same non-projection type.
C5_ProjectionExcluded ==
    ( /\ call = "dcm_check"
      /\ Cardinality(im_types) >= 2
      /\ Cardinality({t \in im_types : Contains(t, Marker)}) = 1 ) =>
        /\ pc = "checked"
        /\ \A i \in DOMAIN dcms : ~Contains(hdr[dcms[i]]["ImageType"], Marker)
        /\ \E t \in im_types :
              /\ ~Contains(t, Marker)
              /\ \A i \in DOMAIN dcms : hdr[dcms[i]]["ImageType"] = t

\* a projection file was dropped and a non-projection file kept
C5_Witness ==
    /\ call = "dcm_check" /\ pc = "checked"
    /\ Cardinality(im_types) >= 2
    /\ Cardinality({t \in im_types : Contains(t, Marker)}) = 1
    /\ Len(dcms) >= 1 /\ Len(dcms) < Len(dicoms)

\* C6: all files dcm_check returns share one series number.
C6_OneScanOnly ==
    (call = "dcm_check" /\ pc = "checked") =>
        \A i, j \in DOMAIN dcms :
            hdr[dcms[i]]["SeriesNumber"] = hdr[dcms[j]]["SeriesNumber"]

\* the files lacking one of the requested tags
LacksRequested(f) == \E k \in DOMAIN req : req[k] \notin DOMAIN hdr[f]

\* C7: get_tag asked for several tags, with a file lacking more than one of
\* them, records every malformed file once, returns, and returns the list
\* without those files with the per-tag values of the files it could read.
C7_MalformedRecordedOnce ==
    ( /\ call = "get_tag"
      /\ Len(req) >= 2
      /\ \E f \in Range(files) :
            Cardinality({k \in DOMAIN req : req[k] \notin DOMAIN hdr[f]}) >= 2 ) =>
        /\ pc = "tags"
        /\ \A f \in Range(files) :
              Cardinality({i \in DOMAIN toRemove : toRemove[i] = f})
                  = (IF LacksRequested(f) THEN 1 ELSE 0)
        /\ dicoms = SelectSeq(files, LAMBDA f : ~LacksRequested(f))
        /\ DOMAIN tags = Range(req)

\* C8: with one file lacking a field, dcm_info returns what it returns for
\* the folder without that file.
C8_MalformedFileExcluded ==
    ( /\ call = "dcm_info"
      /\ Len(files) >= 2
      /\ Cardinality({f \in Range(files) : ~Readable(f)}) = 1 ) =>
        /\ pc = "info"
        /\ dicoms = DcmInfoResult(SelectSeq(files, Readable)).dicoms

\* C9: from a folder or list that held files, dcm_info and get_tag never
\* return an empty file list.
C9_NeverEmpty ==
    (files # << >> /\ call \in {"dcm_info", "get_tag"} /\ pc \in {"info", "tags"}) =>
        Len(dicoms) > 0

\* C10: with two or more image types observed, dcm_check returns a list; it
\* does not raise.
C10_SelectionNeverRaises ==
    (call = "dcm_check" /\ Cardinality(im_types) >= 2) => pc = "checked"

\* C11: every value in the sets returned with the file list is the tag value
\* of a file that is still in the returned list (dcm_info's image types and
\* series numbers, get_tag's per-tag values).
C11_ValuesHaveFiles ==
    /\ (call = "dcm_info" /\ pc = "info") =>
          /\ \A v \in im_types :
                \E i \in DOMAIN dicoms : hdr[dicoms[i]]["ImageType"] = v
          /\ \A v \in series_nums :
                \E i \in DOMAIN dicoms : hdr[dicoms[i]]["SeriesNumber"] = v
    /\ (call = "get_tag" /\ pc = "tags") =>
          \A t \in DOMAIN tags : \A v \in tags[t] :
             \E i \in DOMAIN dicoms :
                /\ t \in DOMAIN hdr[dicoms[i]]
                /\ Normalised(t, hdr[dicoms[i]][t]) = v

\* C12: after get_tag returns, the file list of the DicomInfo object (the
\* caller's list) holds the same files as before the call.
C12_GetTagKeepsFileList ==
    (call = "get_tag" /\ pc = "tags") => dicoms = files

\* C12 as amended: after get_tag returns, the file list of the DicomInfo
\* object is the list before the call without the files that lack a
\* requested tag, the other files in their order.
C12_GetTagDropsMalformedOnly ==
    (call = "get_tag" /\ pc = "tags") =>
        dicoms = SelectSeq(files, LAMBDA f : ~LacksRequested(f))

\* get_tag returned a list that lost a file and kept another
C12_Witness ==
    /\ call = "get_tag" /\ pc = "tags"
    /\ Len(dicoms) >= 1 /\ Len(dicoms) < Len(files)

\* the files check_uniqueness flags for the instance numbers and series
\* numbers get_tag read from the folder
Flagged ==
    CheckUniqueness(files, TagValues(files, "InstanceNumber"),
                    TagValues(files, "SeriesNumber"))

\* C13: get_tag asked for InstanceNumber and SeriesNumber on a folder of
\* readable files that satisfies the duplicate rule returns the file list
\* without the files check_uniqueness flags.
C13_DuplicatesRemovedByGetTag ==
    ( /\ call = "get_tag" /\ pc = "tags"
      /\ {"InstanceNumber", "SeriesNumber"} \subseteq Range(req)
      /\ AllReadable /\ FolderDuplicateRule ) =>
        dicoms = SelectSeq(files, LAMBDA f : f \notin Range(Flagged))

\* C14: for a folder of readable files, the list one pass of dcm_info returns
\* does not satisfy the duplicate rule, and a second pass on it returns and
\* removes nothing.
C14_DuplicateRemovalIdempotent ==
    /\ (call = "dcm_info" /\ pc = "info" /\ AllReadable) =>
          ~( /\ Len(dicoms) =
                  2 * Cardinality({hdr[dicoms[i]]["InstanceNumber"] : i \in DOMAIN dicoms})
             /\ Cardinality({hdr[dicoms[i]]["SeriesNumber"] : i \in DOMAIN dicoms}) = 1 )
    /\ (call = "dcm_info_again" /\ AllReadable) =>
          (pc = "info2" /\ toRemove = << >>)

====
